---- MODULE Spec2Model ----
(***************************************************************************)
(* Model of todo-app/internal/api/http/gin/user.go: the userHandler        *)
(* endpoints, the route table NewUserHandler builds, and the requests that *)
(* travel through it.  Every request owns a slot r; a handler is split at  *)
(* its only shared interaction, the UserService call, into the local       *)
(* validation, the call, and the write of the response, so that requests   *)
(* interleave around the service exactly as goroutines do.                 *)
(***************************************************************************)
EXTENDS Integers, Sequences, FiniteSets, TLC

\* ---------------------------------------------------------------- bounds
NReq == 2                       \* requests in flight at the same time
MaxRequests == 3                \* requests admitted in one behaviour
Req == 1..NReq

\* ------------------------------------------------------------- constants
StatusOK == 200
StatusCreated == 201
StatusNoContent == 204
StatusBadRequest == 400

Nil == "nil"                    \* the nil error
NoOp == "none"                  \* no request in the slot
NoId == ""                      \* a service call that takes no id
NilUUID == "00"                 \* uuid.Nil, the zero value of uuid.UUID
UUIDs == {"1b", "2c"}
Names == {"ann", "bob"}

\* raw :id path segments: an upper-case spelling of the UUID 1b, the UUID 2c
\* as it is printed, and a segment that is not a UUID
PathParams == {"1B", "2c", "123"}
NoPath == ""

\* raw request bodies: wf = syntactically valid JSON; name = "" means the
\* required field is missing; id = an "id" member carried by the body
Bodies ==
    { [wf |-> FALSE, name |-> "",    id |-> NilUUID],
      [wf |-> TRUE,  name |-> "",    id |-> NilUUID],
      [wf |-> TRUE,  name |-> "ann", id |-> NilUUID],
      [wf |-> TRUE,  name |-> "bob", id |-> "2c"] }
\* the bodies sent to each operation
BodiesOf(op) ==
    CASE op = "Register"   -> {b \in Bodies : ~b.wf \/ b.name = "ann"}
      [] op = "Login"      -> {b \in Bodies : b.wf /\ b.id = NilUUID}
      [] op = "UpdateUser" -> {b \in Bodies : ~b.wf \/ b.name = "bob"}
      [] OTHER             -> {[wf |-> FALSE, name |-> "", id |-> NilUUID]}
NoBody == [wf |-> FALSE, name |-> "", id |-> NilUUID]

Ops == {"Register", "Login", "ListUsers", "GetUser", "UpdateUser", "DeleteUser"}
BodyOps == {"Register", "Login", "UpdateUser"}
IdOps == {"GetUser", "UpdateUser", "DeleteUser"}

ZeroData == [name |-> "", id |-> NilUUID]       \* zero value of the DTOs
\* values that travel in results and payloads are tuples of strings
NoVal == <<>>
ErrVal(e) == <<"error", e>>
IdVal(u) == <<"uuid", u>>
TokenVal(u) == <<"token", u>>
UserVal(u, n) == <<"user", u, n>>
ZeroRes == [err |-> Nil, val |-> NoVal]
ZeroLoc == [id |-> NilUUID, data |-> ZeroData, res |-> ZeroRes]

\* ------------------------------------------------------ library functions
\* uuid.Parse: accepts several spellings of one UUID, rejects the rest
uuidParse(s) ==
    CASE s = "1b" -> [id |-> "1b", err |-> Nil]
      [] s = "1B" -> [id |-> "1b", err |-> Nil]
      [] s = "2c" -> [id |-> "2c", err |-> Nil]
      [] OTHER    -> [id |-> NilUUID, err |-> "invalid UUID length"]

\* c.ShouldBind(&data): decodes the body into the DTO, then validates it
ShouldBind(b) ==
    IF ~b.wf THEN [data |-> ZeroData, err |-> "invalid character"]
    ELSE IF b.name = "" THEN [data |-> [name |-> b.name, id |-> b.id],
                              err |-> "field validation failed"]
    ELSE [data |-> [name |-> b.name, id |-> b.id], err |-> Nil]

\* clients.ErrInvalidRequest(err): the invalid-request envelope around err
ErrInvalidRequest(e) == [kind |-> "invalid_request", payload |-> ErrVal(e)]
\* an error value handed to c.JSON as it is
RawError(e) == [kind |-> "error", payload |-> ErrVal(e)]
\* clients.SimpleSuccessResponse(x): the success envelope
SimpleSuccessResponse(x) == [kind |-> "success", payload |-> x]
\* gin.H{"data": x}
GinH(x) == [kind |-> "H", payload |-> x]
\* a nil object, and the body of a response that carries none
Null == [kind |-> "null", payload |-> NoVal]
Empty == [kind |-> "empty", payload |-> NoVal]

\* gin's bodyAllowedForStatus: 1xx, 204 and 304 carry no body
bodyAllowedForStatus(code) ==
    ~((code >= 100 /\ code <= 199) \/ code = StatusNoContent \/ code = 304)
\* c.JSON(code, obj): the response a handler writes
JSON(code, obj) ==
    [status |-> code,
     body |-> IF bodyAllowedForStatus(code) THEN obj ELSE Empty,
     by |-> "handler"]

\* ----------------------------------------------------------- route table
\* NewUserHandler registers in this order; a route gets the group's
\* middleware that was installed before the route was added
\* a slip: the middleware is installed before the public routes are added
Registrations_UseFirst ==
    << [kind |-> "use",   name |-> "middlewareAuth"],
       [kind |-> "route", name |-> "Register"],
       [kind |-> "route", name |-> "Login"],
       [kind |-> "route", name |-> "ListUsers"],
       [kind |-> "route", name |-> "GetUser"],
       [kind |-> "route", name |-> "UpdateUser"],
       [kind |-> "route", name |-> "DeleteUser"] >>
Registrations ==
    << [kind |-> "route", name |-> "Register"],
       [kind |-> "route", name |-> "Login"],
       [kind |-> "use",   name |-> "middlewareAuth"],
       [kind |-> "route", name |-> "ListUsers"],
       [kind |-> "route", name |-> "GetUser"],
       [kind |-> "route", name |-> "UpdateUser"],
       [kind |-> "route", name |-> "DeleteUser"] >>

\* the handler chain of a route: the middleware in use when it was added,
\* then the route's handler
Chain(op) ==
    LET at == CHOOSE i \in 1..Len(Registrations) :
                  Registrations[i] = [kind |-> "route", name |-> op]
        mws == SelectSeq(SubSeq(Registrations, 1, at - 1),
                         LAMBDA e : e.kind = "use")
    IN  [i \in 1..Len(mws) |-> mws[i].name] \o <<op>>

\* ------------------------------------------------------------ UserService
\* The service behind the interface: a user table and an availability flag.
NoUser == ""
\* the service NewUserHandler is given: its table holds the user 1b
SvcInit == [users |-> [u \in UUIDs |-> IF u = "1b" THEN "bob" ELSE NoUser],
            down |-> FALSE]

\* the table entry of id; an id the table has never seen has none
UserOf(s, id) == IF id \in DOMAIN s.users THEN s.users[id] ELSE NoUser

NameTaken(s, n) == \E u \in UUIDs : s.users[u] = n

\* Register(data *UserCreate) error: gid is the identifier it generates
SvcRegister(s, data, gid) ==
    IF s.down THEN [err |-> "unavailable", data |-> data, svc |-> s]
    ELSE IF NameTaken(s, data.name)
         THEN [err |-> "duplicate", data |-> data, svc |-> s]
    ELSE IF s.users[gid] # NoUser
         THEN [err |-> "conflict", data |-> data, svc |-> s]
    ELSE [err |-> Nil, data |-> [data EXCEPT !.id = gid],
          svc |-> [s EXCEPT !.users[gid] = data.name]]

\* Login(data *UserLogin) (Token, error)
SvcLogin(s, data) ==
    IF s.down THEN [err |-> "unavailable", val |-> NoVal]
    ELSE IF ~NameTaken(s, data.name)
         THEN [err |-> "invalid credentials", val |-> NoVal]
    ELSE [err |-> Nil,
          val |-> TokenVal(CHOOSE u \in UUIDs : s.users[u] = data.name)]

\* the users of the table, in the order of their identifiers
UUIDSeq == <<"1b", "2c">>
RECURSIVE UserList(_, _)
UserList(s, ids) ==
    IF ids = <<>> THEN <<"list">>
    ELSE LET rest == UserList(s, SubSeq(ids, 1, Len(ids) - 1))
             u == ids[Len(ids)]
         IN  IF s.users[u] = NoUser THEN rest
             ELSE rest \o UserVal(u, s.users[u])

\* GetAllUser() ([]User, error)
SvcGetAllUser(s) ==
    IF s.down THEN [err |-> "unavailable", val |-> NoVal]
    ELSE [err |-> Nil, val |-> UserList(s, UUIDSeq)]

\* GetByIdUser(id) (User, error)
SvcGetByIdUser(s, id) ==
    IF s.down THEN [err |-> "unavailable", val |-> NoVal]
    ELSE IF UserOf(s, id) = NoUser THEN [err |-> "not found", val |-> NoVal]
    ELSE [err |-> Nil, val |-> UserVal(id, s.users[id])]

\* UpdateUser(id, data *UserUpdate) error
SvcUpdateUser(s, id, data) ==
    IF s.down THEN [err |-> "unavailable", svc |-> s]
    ELSE IF UserOf(s, id) = NoUser THEN [err |-> "not found", svc |-> s]
    ELSE [err |-> Nil, svc |-> [s EXCEPT !.users[id] = data.name]]

\* DeleteUser(id) error
SvcDeleteUser(s, id) ==
    IF s.down THEN [err |-> "unavailable", svc |-> s]
    ELSE IF UserOf(s, id) = NoUser THEN [err |-> "not found", svc |-> s]
    ELSE [err |-> Nil, svc |-> [s EXCEPT !.users[id] = NoUser]]

\* ------------------------------------------------------------------ state
VARIABLES
    h,        \* the userHandler struct
    svc,      \* the state behind h.userService
    req,      \* req[r]: the request in slot r (op, path, body, credentials)
    pc,       \* pc[r]: where request r stands in its handler chain
    loc,      \* loc[r]: the handler's local variables id, data, res
    ev,       \* ev[r]: what has happened to request r, in order
    calls,    \* calls[r]: the UserService invocations made for request r
    resps,    \* resps[r]: the responses written for request r
    aux,      \* aux[r]: what the service returned to r; whether the service
              \*         changed since r called it
    getLog,   \* the GetUser responses for the path watch since the service
              \* last changed, and how many there were (up to 2)
    watch,    \* the path whose GetUser responses are recorded: the path
              \* of the first GetUser request
    admitted  \* the number of requests admitted so far

vars == <<h, svc, req, pc, loc, ev, calls, resps, aux, getLog, watch, admitted>>

Idle == [op |-> NoOp, path |-> NoPath, body |-> NoBody]
ZeroAux == [ret |-> [err |-> "no call", val |-> NoVal], stale |-> FALSE]
ZeroLog == [seen |-> {}, n |-> 0]

Init ==
    /\ h = [userService |-> "svc"]
    /\ svc = SvcInit
    /\ req = [r \in Req |-> Idle]
    /\ pc = [r \in Req |-> "idle"]
    /\ loc = [r \in Req |-> ZeroLoc]
    /\ ev = [r \in Req |-> <<>>]
    /\ calls = [r \in Req |-> <<>>]
    /\ resps = [r \in Req |-> <<>>]
    /\ aux = [r \in Req |-> ZeroAux]
    /\ getLog = ZeroLog
    /\ watch = NoPath
    /\ admitted = 0

\* ---------------------------------------------------------------- helpers
\* bookkeeping after request r called the service, which returned ret and
\* left the service in state s2: requests still holding a result obtained
\* from an older service state are marked stale
AuxAfter(r, ret, s2) ==
    [q \in Req |->
        IF q = r THEN [ret |-> ret, stale |-> FALSE]
        ELSE IF s2 # svc /\ pc[q] = "respond" /\ req[q].op = "GetUser"
             THEN [aux[q] EXCEPT !.stale = TRUE]
        ELSE aux[q]]
GetLogAfter(s2) == IF s2 # svc THEN ZeroLog ELSE getLog

Bump(n) == IF n < 2 THEN n + 1 ELSE 2
Logged(p, resp) ==
    IF p = watch
    THEN [seen |-> getLog.seen \cup {resp}, n |-> Bump(getLog.n)]
    ELSE getLog

\* ------------------------------------------------------- request pipeline
\* a request enters the router, in a free slot: method and path select the
\* route
Free(r) == pc[r] \in {"idle", "done"}
Arrive(r) ==
    /\ Free(r)
    /\ \A q \in Req : q < r => ~Free(q)
    /\ admitted < MaxRequests
    /\ admitted' = admitted + 1
    /\ \E op \in Ops :
       \E p \in (IF op \in IdOps THEN PathParams ELSE {NoPath}),
          b \in BodiesOf(op) :
          /\ req' = [req EXCEPT ![r] = [op |-> op, path |-> p, body |-> b]]
          /\ pc' = [pc EXCEPT ![r] =
                       IF Head(Chain(op)) = "middlewareAuth"
                       THEN "mw" ELSE "handler"]
          /\ watch' = IF op = "GetUser" /\ watch = NoPath THEN p ELSE watch
    /\ loc' = [loc EXCEPT ![r] = ZeroLoc]
    /\ ev' = [ev EXCEPT ![r] = <<>>]
    /\ calls' = [calls EXCEPT ![r] = <<>>]
    /\ resps' = [resps EXCEPT ![r] = <<>>]
    /\ aux' = [aux EXCEPT ![r] = ZeroAux]
    /\ UNCHANGED <<h, svc, getLog>>

\* the authentication middleware: lets the request through to the next
\* handler of the chain, or aborts it with its own response
middlewareAuth(r) ==
    /\ pc[r] = "mw"
    /\ \E authenticated \in BOOLEAN :
       IF authenticated
       THEN /\ ev' = [ev EXCEPT ![r] = Append(@, "mw_pass")]
            /\ pc' = [pc EXCEPT ![r] = "handler"]
            /\ UNCHANGED resps
       ELSE /\ ev' = [ev EXCEPT ![r] = Append(@, "mw_abort")]
            /\ resps' = [resps EXCEPT ![r] =
                  Append(@, [status |-> 401,
                             body |-> RawError("unauthorized"),
                             by |-> "middleware"])]
            /\ pc' = [pc EXCEPT ![r] = "done"]
    /\ UNCHANGED <<h, svc, req, loc, calls, aux, getLog, watch, admitted>>

\* the backing service goes down or comes back
ServiceOutage ==
    /\ svc' = [svc EXCEPT !.down = ~@]
    /\ aux' = [q \in Req |->
                  IF pc[q] = "respond" /\ req[q].op = "GetUser"
                  THEN [aux[q] EXCEPT !.stale = TRUE] ELSE aux[q]]
    /\ getLog' = ZeroLog
    /\ UNCHANGED <<h, req, pc, loc, ev, calls, resps, watch, admitted>>

\* ---------------------------------------------------- RegisterUserHandler
RegisterBind(r) ==
    /\ pc[r] = "handler" /\ req[r].op = "Register"
    /\ LET b == ShouldBind(req[r].body) IN
       /\ loc' = [loc EXCEPT ![r].data = b.data]
       /\ IF b.err # Nil
          THEN /\ resps' = [resps EXCEPT ![r] =
                     Append(@, JSON(StatusBadRequest, ErrInvalidRequest(b.err)))]
               /\ ev' = [ev EXCEPT ![r] = @ \o <<"bind", "write">>]
               /\ pc' = [pc EXCEPT ![r] = "done"]
          ELSE /\ ev' = [ev EXCEPT ![r] = Append(@, "bind")]
               /\ pc' = [pc EXCEPT ![r] = "call"]
               /\ UNCHANGED resps
    /\ UNCHANGED <<h, svc, req, calls, aux, getLog, watch, admitted>>

\* a slip: data is handed to the service by value, so the handler never
\* sees the identifier the service generated
RegisterCall_ByValue(r) ==
    /\ pc[r] = "call" /\ req[r].op = "Register"
    /\ \E gid \in UUIDs :
       LET out == SvcRegister(svc, loc[r].data, gid) IN
       /\ svc' = out.svc
       /\ loc' = [loc EXCEPT ![r].res = [err |-> out.err, val |-> NoVal]]
       /\ calls' = [calls EXCEPT ![r] =
             Append(@, [method |-> "Register", id |-> NoId,
                        data |-> loc[r].data])]
       /\ aux' = AuxAfter(r, [err |-> out.err, val |-> IdVal(out.data.id)], out.svc)
       /\ getLog' = GetLogAfter(out.svc)
    /\ ev' = [ev EXCEPT ![r] = Append(@, "call")]
    /\ pc' = [pc EXCEPT ![r] = "respond"]
    /\ UNCHANGED <<h, req, resps, watch, admitted>>

RegisterCall(r) ==
    /\ pc[r] = "call" /\ req[r].op = "Register"
    /\ \E gid \in UUIDs :
       LET out == SvcRegister(svc, loc[r].data, gid) IN
       /\ svc' = out.svc
       /\ loc' = [loc EXCEPT ![r].data = out.data,
                             ![r].res = [err |-> out.err, val |-> NoVal]]
       /\ calls' = [calls EXCEPT ![r] =
             Append(@, [method |-> "Register", id |-> NoId,
                        data |-> loc[r].data])]
       /\ aux' = AuxAfter(r, [err |-> out.err, val |-> IdVal(out.data.id)], out.svc)
       /\ getLog' = GetLogAfter(out.svc)
    /\ ev' = [ev EXCEPT ![r] = Append(@, "call")]
    /\ pc' = [pc EXCEPT ![r] = "respond"]
    /\ UNCHANGED <<h, req, resps, watch, admitted>>

\* a slip: no return after the error response, the success response follows
RegisterWrite_NoReturn(r) ==
    /\ pc[r] = "respond" /\ req[r].op = "Register"
    /\ IF loc[r].res.err # Nil
       THEN /\ resps' = [resps EXCEPT ![r] =
                  @ \o << JSON(StatusBadRequest, RawError(loc[r].res.err)),
                          JSON(StatusCreated,
                               SimpleSuccessResponse(IdVal(loc[r].data.id))) >>]
            /\ ev' = [ev EXCEPT ![r] = @ \o <<"write", "write">>]
       ELSE /\ resps' = [resps EXCEPT ![r] =
                  Append(@, JSON(StatusCreated,
                                 SimpleSuccessResponse(IdVal(loc[r].data.id))))]
            /\ ev' = [ev EXCEPT ![r] = Append(@, "write")]
    /\ pc' = [pc EXCEPT ![r] = "done"]
    /\ UNCHANGED <<h, svc, req, loc, calls, aux, getLog, watch, admitted>>

RegisterWrite(r) ==
    /\ pc[r] = "respond" /\ req[r].op = "Register"
    /\ resps' = [resps EXCEPT ![r] = Append(@,
          IF loc[r].res.err # Nil
          THEN JSON(StatusBadRequest, RawError(loc[r].res.err))
          ELSE JSON(StatusCreated, SimpleSuccessResponse(IdVal(loc[r].data.id))))]
    /\ ev' = [ev EXCEPT ![r] = Append(@, "write")]
    /\ pc' = [pc EXCEPT ![r] = "done"]
    /\ UNCHANGED <<h, svc, req, loc, calls, aux, getLog, watch, admitted>>

RegisterUserHandler(r) == RegisterBind(r) \/ RegisterCall(r) \/ RegisterWrite(r)

\* ------------------------------------------------------------ LoginHandler
\* a slip: the error of the binding is dropped
LoginBind_IgnoreErr(r) ==
    /\ pc[r] = "handler" /\ req[r].op = "Login"
    /\ loc' = [loc EXCEPT ![r].data = ShouldBind(req[r].body).data]
    /\ ev' = [ev EXCEPT ![r] = Append(@, "bind")]
    /\ pc' = [pc EXCEPT ![r] = "call"]
    /\ UNCHANGED <<h, svc, req, calls, resps, aux, getLog, watch, admitted>>

LoginBind(r) ==
    /\ pc[r] = "handler" /\ req[r].op = "Login"
    /\ LET b == ShouldBind(req[r].body) IN
       /\ loc' = [loc EXCEPT ![r].data = b.data]
       /\ IF b.err # Nil
          THEN /\ resps' = [resps EXCEPT ![r] =
                     Append(@, JSON(StatusBadRequest, ErrInvalidRequest(b.err)))]
               /\ ev' = [ev EXCEPT ![r] = @ \o <<"bind", "write">>]
               /\ pc' = [pc EXCEPT ![r] = "done"]
          ELSE /\ ev' = [ev EXCEPT ![r] = Append(@, "bind")]
               /\ pc' = [pc EXCEPT ![r] = "call"]
               /\ UNCHANGED resps
    /\ UNCHANGED <<h, svc, req, calls, aux, getLog, watch, admitted>>

LoginCall(r) ==
    /\ pc[r] = "call" /\ req[r].op = "Login"
    /\ LET out == SvcLogin(svc, loc[r].data) IN
       /\ loc' = [loc EXCEPT ![r].res = out]
       /\ calls' = [calls EXCEPT ![r] =
             Append(@, [method |-> "Login", id |-> NoId,
                        data |-> loc[r].data])]
       /\ aux' = AuxAfter(r, out, svc)
    /\ ev' = [ev EXCEPT ![r] = Append(@, "call")]
    /\ pc' = [pc EXCEPT ![r] = "respond"]
    /\ UNCHANGED <<h, svc, req, resps, getLog, watch, admitted>>

LoginWrite(r) ==
    /\ pc[r] = "respond" /\ req[r].op = "Login"
    /\ resps' = [resps EXCEPT ![r] = Append(@,
          IF loc[r].res.err # Nil
          THEN JSON(StatusBadRequest, RawError(loc[r].res.err))
          ELSE JSON(StatusOK, SimpleSuccessResponse(loc[r].res.val)))]
    /\ ev' = [ev EXCEPT ![r] = Append(@, "write")]
    /\ pc' = [pc EXCEPT ![r] = "done"]
    /\ UNCHANGED <<h, svc, req, loc, calls, aux, getLog, watch, admitted>>

LoginHandler(r) == LoginBind(r) \/ LoginCall(r) \/ LoginWrite(r)

\* ----------------------------------------------------------- GetAllhandler
GetAllCall(r) ==
    /\ pc[r] = "handler" /\ req[r].op = "ListUsers"
    /\ LET out == SvcGetAllUser(svc) IN
       /\ loc' = [loc EXCEPT ![r].res = out]
       /\ calls' = [calls EXCEPT ![r] =
             Append(@, [method |-> "GetAllUser", id |-> NoId,
                        data |-> ZeroData])]
       /\ aux' = AuxAfter(r, out, svc)
    /\ ev' = [ev EXCEPT ![r] = Append(@, "call")]
    /\ pc' = [pc EXCEPT ![r] = "respond"]
    /\ UNCHANGED <<h, svc, req, resps, getLog, watch, admitted>>

GetAllWrite(r) ==
    /\ pc[r] = "respond" /\ req[r].op = "ListUsers"
    /\ resps' = [resps EXCEPT ![r] = Append(@,
          IF loc[r].res.err # Nil
          THEN JSON(StatusBadRequest, ErrInvalidRequest(loc[r].res.err))
          ELSE JSON(StatusOK, SimpleSuccessResponse(loc[r].res.val)))]
    /\ ev' = [ev EXCEPT ![r] = Append(@, "write")]
    /\ pc' = [pc EXCEPT ![r] = "done"]
    /\ UNCHANGED <<h, svc, req, loc, calls, aux, getLog, watch, admitted>>

GetAllhandler(r) == GetAllCall(r) \/ GetAllWrite(r)

\* ---------------------------------------------------------- GetUserhandler
GetUserParse(r) ==
    /\ pc[r] = "handler" /\ req[r].op = "GetUser"
    /\ LET p == uuidParse(req[r].path)
           bad == JSON(StatusBadRequest, ErrInvalidRequest(p.err)) IN
       /\ loc' = [loc EXCEPT ![r].id = p.id]
       /\ IF p.err # Nil
          THEN /\ resps' = [resps EXCEPT ![r] = Append(@, bad)]
               /\ ev' = [ev EXCEPT ![r] = @ \o <<"parse", "write">>]
               /\ pc' = [pc EXCEPT ![r] = "done"]
               /\ getLog' = Logged(req[r].path, bad)
          ELSE /\ ev' = [ev EXCEPT ![r] = Append(@, "parse")]
               /\ pc' = [pc EXCEPT ![r] = "call"]
               /\ UNCHANGED <<resps, getLog>>
    /\ UNCHANGED <<h, svc, req, calls, aux, watch, admitted>>

\* a slip: the lookup consumes the user it returns
GetUserCall_Consume(r) ==
    /\ pc[r] = "call" /\ req[r].op = "GetUser"
    /\ LET out == SvcGetByIdUser(svc, loc[r].id) IN
       /\ loc' = [loc EXCEPT ![r].res = out]
       /\ calls' = [calls EXCEPT ![r] =
             Append(@, [method |-> "GetByIdUser", id |-> loc[r].id,
                        data |-> ZeroData])]
       /\ aux' = [aux EXCEPT ![r] = [ret |-> out, stale |-> FALSE]]
       /\ svc' = SvcDeleteUser(svc, loc[r].id).svc
    /\ ev' = [ev EXCEPT ![r] = Append(@, "call")]
    /\ pc' = [pc EXCEPT ![r] = "respond"]
    /\ UNCHANGED <<h, req, resps, getLog, watch, admitted>>

GetUserCall(r) ==
    /\ pc[r] = "call" /\ req[r].op = "GetUser"
    /\ LET out == SvcGetByIdUser(svc, loc[r].id) IN
       /\ loc' = [loc EXCEPT ![r].res = out]
       /\ calls' = [calls EXCEPT ![r] =
             Append(@, [method |-> "GetByIdUser", id |-> loc[r].id,
                        data |-> ZeroData])]
       /\ aux' = AuxAfter(r, out, svc)
    /\ ev' = [ev EXCEPT ![r] = Append(@, "call")]
    /\ pc' = [pc EXCEPT ![r] = "respond"]
    /\ UNCHANGED <<h, svc, req, resps, getLog, watch, admitted>>

GetUserWrite(r) ==
    /\ pc[r] = "respond" /\ req[r].op = "GetUser"
    /\ LET resp == IF loc[r].res.err # Nil
                   THEN JSON(StatusBadRequest, RawError(loc[r].res.err))
                   ELSE JSON(StatusOK, GinH(loc[r].res.val)) IN
       /\ resps' = [resps EXCEPT ![r] = Append(@, resp)]
       /\ getLog' = IF aux[r].stale THEN getLog
                    ELSE Logged(req[r].path, resp)
    /\ ev' = [ev EXCEPT ![r] = Append(@, "write")]
    /\ pc' = [pc EXCEPT ![r] = "done"]
    /\ UNCHANGED <<h, svc, req, loc, calls, aux, watch, admitted>>

GetUserhandler(r) == GetUserParse(r) \/ GetUserCall(r) \/ GetUserWrite(r)

\* ------------------------------------------------------- UpdateUserHandler
\* a slip: the body is bound before the path id is parsed
UpdateValidate_BindFirst(r) ==
    /\ pc[r] = "handler" /\ req[r].op = "UpdateUser"
    /\ LET p == uuidParse(req[r].path)
           b == ShouldBind(req[r].body) IN
       IF b.err # Nil
       THEN /\ loc' = [loc EXCEPT ![r].data = b.data]
            /\ resps' = [resps EXCEPT ![r] =
                  Append(@, JSON(StatusBadRequest, ErrInvalidRequest(b.err)))]
            /\ ev' = [ev EXCEPT ![r] = @ \o <<"bind", "write">>]
            /\ pc' = [pc EXCEPT ![r] = "done"]
       ELSE IF p.err # Nil
       THEN /\ loc' = [loc EXCEPT ![r].id = p.id, ![r].data = b.data]
            /\ resps' = [resps EXCEPT ![r] =
                  Append(@, JSON(StatusBadRequest, ErrInvalidRequest(p.err)))]
            /\ ev' = [ev EXCEPT ![r] = @ \o <<"bind", "parse", "write">>]
            /\ pc' = [pc EXCEPT ![r] = "done"]
       ELSE /\ loc' = [loc EXCEPT ![r].id = p.id, ![r].data = b.data]
            /\ ev' = [ev EXCEPT ![r] = @ \o <<"bind", "parse">>]
            /\ pc' = [pc EXCEPT ![r] = "call"]
            /\ UNCHANGED resps
    /\ UNCHANGED <<h, svc, req, calls, aux, getLog, watch, admitted>>

\* a slip: the parsed id is kept in a variable all requests share
UpdateValidate_Shared(r) ==
    /\ pc[r] = "handler" /\ req[r].op = "UpdateUser"
    /\ LET p == uuidParse(req[r].path)
           b == ShouldBind(req[r].body)
           shared == [q \in Req |-> [loc[q] EXCEPT !.id = p.id]] IN
       IF p.err # Nil
       THEN /\ loc' = shared
            /\ resps' = [resps EXCEPT ![r] =
                  Append(@, JSON(StatusBadRequest, ErrInvalidRequest(p.err)))]
            /\ ev' = [ev EXCEPT ![r] = @ \o <<"parse", "write">>]
            /\ pc' = [pc EXCEPT ![r] = "done"]
       ELSE IF b.err # Nil
       THEN /\ loc' = [shared EXCEPT ![r].data = b.data]
            /\ resps' = [resps EXCEPT ![r] =
                  Append(@, JSON(StatusBadRequest, ErrInvalidRequest(b.err)))]
            /\ ev' = [ev EXCEPT ![r] = @ \o <<"parse", "bind", "write">>]
            /\ pc' = [pc EXCEPT ![r] = "done"]
       ELSE /\ loc' = [shared EXCEPT ![r].data = b.data]
            /\ ev' = [ev EXCEPT ![r] = @ \o <<"parse", "bind">>]
            /\ pc' = [pc EXCEPT ![r] = "call"]
            /\ UNCHANGED resps
    /\ UNCHANGED <<h, svc, req, calls, aux, getLog, watch, admitted>>

UpdateValidate(r) ==
    /\ pc[r] = "handler" /\ req[r].op = "UpdateUser"
    /\ LET p == uuidParse(req[r].path)
           b == ShouldBind(req[r].body) IN
       IF p.err # Nil
       THEN /\ loc' = [loc EXCEPT ![r].id = p.id]
            /\ resps' = [resps EXCEPT ![r] =
                  Append(@, JSON(StatusBadRequest, ErrInvalidRequest(p.err)))]
            /\ ev' = [ev EXCEPT ![r] = @ \o <<"parse", "write">>]
            /\ pc' = [pc EXCEPT ![r] = "done"]
       ELSE IF b.err # Nil
       THEN /\ loc' = [loc EXCEPT ![r].id = p.id, ![r].data = b.data]
            /\ resps' = [resps EXCEPT ![r] =
                  Append(@, JSON(StatusBadRequest, ErrInvalidRequest(b.err)))]
            /\ ev' = [ev EXCEPT ![r] = @ \o <<"parse", "bind", "write">>]
            /\ pc' = [pc EXCEPT ![r] = "done"]
       ELSE /\ loc' = [loc EXCEPT ![r].id = p.id, ![r].data = b.data]
            /\ ev' = [ev EXCEPT ![r] = @ \o <<"parse", "bind">>]
            /\ pc' = [pc EXCEPT ![r] = "call"]
            /\ UNCHANGED resps
    /\ UNCHANGED <<h, svc, req, calls, aux, getLog, watch, admitted>>

UpdateCall(r) ==
    /\ pc[r] = "call" /\ req[r].op = "UpdateUser"
    /\ LET out == SvcUpdateUser(svc, loc[r].id, loc[r].data) IN
       /\ svc' = out.svc
       /\ loc' = [loc EXCEPT ![r].res = [err |-> out.err, val |-> NoVal]]
       /\ calls' = [calls EXCEPT ![r] =
             Append(@, [method |-> "UpdateUser", id |-> loc[r].id,
                        data |-> loc[r].data])]
       /\ aux' = AuxAfter(r, [err |-> out.err, val |-> NoVal], out.svc)
       /\ getLog' = GetLogAfter(out.svc)
    /\ ev' = [ev EXCEPT ![r] = Append(@, "call")]
    /\ pc' = [pc EXCEPT ![r] = "respond"]
    /\ UNCHANGED <<h, req, resps, watch, admitted>>

UpdateWrite(r) ==
    /\ pc[r] = "respond" /\ req[r].op = "UpdateUser"
    /\ resps' = [resps EXCEPT ![r] = Append(@,
          IF loc[r].res.err # Nil
          THEN JSON(StatusBadRequest, RawError(loc[r].res.err))
          ELSE JSON(StatusOK, SimpleSuccessResponse(IdVal(loc[r].id))))]
    /\ ev' = [ev EXCEPT ![r] = Append(@, "write")]
    /\ pc' = [pc EXCEPT ![r] = "done"]
    /\ UNCHANGED <<h, svc, req, loc, calls, aux, getLog, watch, admitted>>

UpdateUserHandler(r) == UpdateValidate(r) \/ UpdateCall(r) \/ UpdateWrite(r)

\* ------------------------------------------------------- DeleteUserHandler
\* a slip: the path id is used without looking at the parse error
DeleteParse_Unchecked(r) ==
    /\ pc[r] = "handler" /\ req[r].op = "DeleteUser"
    /\ loc' = [loc EXCEPT ![r].id = uuidParse(req[r].path).id]
    /\ ev' = [ev EXCEPT ![r] = Append(@, "parse")]
    /\ pc' = [pc EXCEPT ![r] = "call"]
    /\ UNCHANGED <<h, svc, req, calls, resps, aux, getLog, watch, admitted>>

DeleteParse(r) ==
    /\ pc[r] = "handler" /\ req[r].op = "DeleteUser"
    /\ LET p == uuidParse(req[r].path) IN
       /\ loc' = [loc EXCEPT ![r].id = p.id]
       /\ IF p.err # Nil
          THEN /\ resps' = [resps EXCEPT ![r] =
                     Append(@, JSON(StatusBadRequest, ErrInvalidRequest(p.err)))]
               /\ ev' = [ev EXCEPT ![r] = @ \o <<"parse", "write">>]
               /\ pc' = [pc EXCEPT ![r] = "done"]
          ELSE /\ ev' = [ev EXCEPT ![r] = Append(@, "parse")]
               /\ pc' = [pc EXCEPT ![r] = "call"]
               /\ UNCHANGED resps
    /\ UNCHANGED <<h, svc, req, calls, aux, getLog, watch, admitted>>

DeleteCall(r) ==
    /\ pc[r] = "call" /\ req[r].op = "DeleteUser"
    /\ LET out == SvcDeleteUser(svc, loc[r].id) IN
       /\ svc' = out.svc
       /\ loc' = [loc EXCEPT ![r].res = [err |-> out.err, val |-> NoVal]]
       /\ calls' = [calls EXCEPT ![r] =
             Append(@, [method |-> "DeleteUser", id |-> loc[r].id,
                        data |-> ZeroData])]
       /\ aux' = AuxAfter(r, [err |-> out.err, val |-> NoVal], out.svc)
       /\ getLog' = GetLogAfter(out.svc)
    /\ ev' = [ev EXCEPT ![r] = Append(@, "call")]
    /\ pc' = [pc EXCEPT ![r] = "respond"]
    /\ UNCHANGED <<h, req, resps, watch, admitted>>

\* a slip: the deletion answers 200 like the other operations
DeleteWrite_OK(r) ==
    /\ pc[r] = "respond" /\ req[r].op = "DeleteUser"
    /\ resps' = [resps EXCEPT ![r] = Append(@,
          IF loc[r].res.err # Nil
          THEN JSON(StatusBadRequest, RawError(loc[r].res.err))
          ELSE JSON(StatusOK, Null))]
    /\ ev' = [ev EXCEPT ![r] = Append(@, "write")]
    /\ pc' = [pc EXCEPT ![r] = "done"]
    /\ UNCHANGED <<h, svc, req, loc, calls, aux, getLog, watch, admitted>>

DeleteWrite(r) ==
    /\ pc[r] = "respond" /\ req[r].op = "DeleteUser"
    /\ resps' = [resps EXCEPT ![r] = Append(@,
          IF loc[r].res.err # Nil
          THEN JSON(StatusBadRequest, RawError(loc[r].res.err))
          ELSE JSON(StatusNoContent, Null))]
    /\ ev' = [ev EXCEPT ![r] = Append(@, "write")]
    /\ pc' = [pc EXCEPT ![r] = "done"]
    /\ UNCHANGED <<h, svc, req, loc, calls, aux, getLog, watch, admitted>>

DeleteUserHandler(r) == DeleteParse(r) \/ DeleteCall(r) \/ DeleteWrite(r)

\* ---------------------------------------------------------- specification
Next ==
    \/ \E r \in Req : Arrive(r)
    \/ \E r \in Req : middlewareAuth(r)
    \/ \E r \in Req : RegisterUserHandler(r)
    \/ \E r \in Req : LoginHandler(r)
    \/ \E r \in Req : GetAllhandler(r)
    \/ \E r \in Req : GetUserhandler(r)
    \/ \E r \in Req : UpdateUserHandler(r)
    \/ \E r \in Req : DeleteUserHandler(r)
    \/ ServiceOutage

Spec == Init /\ [][Next]_vars

\* ------------------------------------------------------------ observations
Has(r, e) == \E i \in DOMAIN ev[r] : ev[r][i] = e
\* every b in the history of r comes after an a
Before(r, a, b) ==
    \A j \in DOMAIN ev[r] : ev[r][j] = b => \E i \in 1..(j - 1) : ev[r][i] = a
Aborted(r) == Has(r, "mw_abort")
\* the handler of request r has run and returned
Returned(r) == pc[r] = "done" /\ ~Aborted(r)
Called(r) == calls[r] # <<>>
ServiceFailed(r) == Called(r) /\ aux[r].ret.err # Nil
ServiceSucceeded(r) == Called(r) /\ aux[r].ret.err = Nil
Resp(r) == resps[r][1]
BadBody(r) == req[r].op \in BodyOps /\ ShouldBind(req[r].body).err # Nil
BadPath(r) == req[r].op \in IdOps /\ uuidParse(req[r].path).err # Nil
Protected == {"ListUsers", "GetUser", "UpdateUser", "DeleteUser"}
MethodOf(op) ==
    CASE op = "Register"   -> "Register"
      [] op = "Login"      -> "Login"
      [] op = "ListUsers"  -> "GetAllUser"
      [] op = "GetUser"    -> "GetByIdUser"
      [] op = "UpdateUser" -> "UpdateUser"
      [] op = "DeleteUser" -> "DeleteUser"
      [] OTHER             -> "none"

\* ------------------------------------------------------------------ claims

\* C1: on Register, Login and UpdateUser a body that fails to bind never
\* leads to a UserService call, and the handler answers 400 with the
\* invalid-request envelope around the parse error (for UpdateUser with an
\* invalid path id too: the envelope then wraps the UUID parse error).
C1_BindFailure ==
    \A r \in Req : BadBody(r) =>
        /\ ~Called(r)
        /\ Returned(r) =>
             /\ Len(resps[r]) = 1
             /\ Resp(r) = JSON(StatusBadRequest, ErrInvalidRequest(
                    IF BadPath(r) THEN uuidParse(req[r].path).err
                    ELSE ShouldBind(req[r].body).err))
C1_Witness ==
    /\ \E r \in Req : req[r].op = "Login" /\ BadBody(r) /\ Returned(r)
    /\ \E r \in Req : req[r].op = "UpdateUser" /\ BadBody(r) /\ ~BadPath(r)
                      /\ Returned(r)

\* C2: on GetUser, UpdateUser and DeleteUser a path id that is not a UUID
\* never leads to a UserService call and is answered 400 with the
\* invalid-request envelope; every id handed to GetByIdUser, UpdateUser or
\* DeleteUser is the UUID parsed from the path.
C2_BadPathRejected ==
    /\ \A r \in Req : BadPath(r) =>
          /\ ~Called(r)
          /\ Returned(r) =>
               /\ Len(resps[r]) = 1
               /\ Resp(r) = JSON(StatusBadRequest,
                                 ErrInvalidRequest(uuidParse(req[r].path).err))
    /\ \A r \in Req : \A i \in DOMAIN calls[r] :
          calls[r][i].method \in {"GetByIdUser", "UpdateUser", "DeleteUser"} =>
              /\ uuidParse(req[r].path).err = Nil
              /\ calls[r][i].id = uuidParse(req[r].path).id
              /\ calls[r][i].id \in UUIDs
C2_Witness ==
    /\ \E r \in Req : req[r].op = "DeleteUser" /\ BadPath(r) /\ Returned(r)
    /\ \E r \in Req : req[r].op = "DeleteUser" /\ req[r].path = "1B"
                      /\ Called(r)

\* C3: on all six operations a UserService error is answered 400 with the
\* error itself as the body, and the invalid-request envelope appears only
\* when no service call was made.
C3_ServiceErrorVerbatim ==
    \A r \in Req : Returned(r) =>
        /\ ServiceFailed(r) =>
              Resp(r) = JSON(StatusBadRequest, RawError(aux[r].ret.err))
        /\ Resp(r).body.kind = "invalid_request" => ~Called(r)

\* C4: the handlers of ListUsers, GetUser, UpdateUser and DeleteUser start
\* only after the middleware has let the request through, an aborted
\* request never reaches the service, and Register and Login never meet
\* the middleware.
C4_AuthBeforeProtected ==
    \A r \in Req :
        /\ (req[r].op \in Protected /\ pc[r] # "mw") =>
              \/ /\ ev[r] = <<"mw_abort">>
                 /\ pc[r] = "done" /\ ~Called(r)
                 /\ \A i \in DOMAIN resps[r] : resps[r][i].by = "middleware"
              \/ /\ ev[r] # <<>> /\ ev[r][1] = "mw_pass"
                 /\ ~Aborted(r)
        /\ req[r].op \in {"Register", "Login"} =>
              /\ pc[r] # "mw"
              /\ ~Has(r, "mw_pass") /\ ~Has(r, "mw_abort")
C4_Witness ==
    /\ \E r \in Req : req[r].op \in Protected /\ ev[r] = <<"mw_abort">>
    /\ \E r \in Req : req[r].op \in Protected /\ Called(r)
                      /\ ev[r][1] = "mw_pass"

C7_GetUserIdempotent == Cardinality(getLog.seen) <= 1
C7_Witness ==
    /\ getLog.n = 2
    /\ \E x \in getLog.seen : x.status = StatusOK
    /\ \E r \in Req : req[r].op = "ListUsers" /\ Returned(r)

\* C8: no handler changes the userHandler struct, and the response of a
\* request is determined by its own path id, its own body and the result
\* its own service call returned.
Expected(q, ret) ==
    LET p == uuidParse(q.path)
        b == ShouldBind(q.body)
        invalid(e) == JSON(StatusBadRequest, ErrInvalidRequest(e))
        failed == JSON(StatusBadRequest, RawError(ret.err))
    IN  CASE q.op = "Register" ->
                 IF b.err # Nil THEN invalid(b.err)
                 ELSE IF ret.err # Nil THEN failed
                 ELSE JSON(StatusCreated, SimpleSuccessResponse(ret.val))
          [] q.op = "Login" ->
                 IF b.err # Nil THEN invalid(b.err)
                 ELSE IF ret.err # Nil THEN failed
                 ELSE JSON(StatusOK, SimpleSuccessResponse(ret.val))
          [] q.op = "ListUsers" ->
                 IF ret.err # Nil THEN invalid(ret.err)
                 ELSE JSON(StatusOK, SimpleSuccessResponse(ret.val))
          [] q.op = "GetUser" ->
                 IF p.err # Nil THEN invalid(p.err)
                 ELSE IF ret.err # Nil THEN failed
                 ELSE JSON(StatusOK, GinH(ret.val))
          [] q.op = "UpdateUser" ->
                 IF p.err # Nil THEN invalid(p.err)
                 ELSE IF b.err # Nil THEN invalid(b.err)
                 ELSE IF ret.err # Nil THEN failed
                 ELSE JSON(StatusOK, SimpleSuccessResponse(IdVal(p.id)))
          [] q.op = "DeleteUser" ->
                 IF p.err # Nil THEN invalid(p.err)
                 ELSE IF ret.err # Nil THEN failed
                 ELSE JSON(StatusNoContent, Null)
Independent ==
    \A r \in Req : Returned(r) => resps[r] = <<Expected(req[r], aux[r].ret)>>
C8_NoSharedState == [][h' = h /\ Independent']_vars
C8_Witness ==
    \E r, q \in Req :
        /\ r # q
        /\ req[r].op = "UpdateUser" /\ Returned(r) /\ ServiceSucceeded(r)
        /\ req[q].op = "UpdateUser" /\ req[q].path # req[r].path
        /\ pc[q] \in {"call", "respond"}

\* C9: a request makes at most one UserService call, the one of its
\* operation, and its handler writes exactly one response, at its end.
C9_SingleShot ==
    \A r \in Req :
        /\ Len(calls[r]) <= 1
        /\ \A i \in DOMAIN calls[r] : calls[r][i].method = MethodOf(req[r].op)
        /\ Returned(r) => Len(resps[r]) = 1
        /\ pc[r] # "done" => resps[r] = <<>>
C9_Witness ==
    /\ \E r \in Req : Returned(r) /\ ServiceFailed(r)
    /\ \E r \in Req : Returned(r) /\ ServiceSucceeded(r)

====
